---- MODULE Spec2Model ----
(***************************************************************************)
(* A model of py-why/graphs: the MixedEdgeGraph class                      *)
(* (src/graphs/classes/mixedgraph.py) and the m-separation algorithm       *)
(* (src/graphs/algorithms/causal/m_separation.py).                         *)
(*                                                                         *)
(* A MixedEdgeGraph holds a list of references to networkx graph objects   *)
(* (self._graphs) and a list of edge-type names (self._edge_types).  The   *)
(* networkx objects live in `heap`; `graphs` is the list of references,    *)
(* so that two layers may be the same object, as Python allows.            *)
(*                                                                         *)
(* networkx itself is a dependency, not code of the repository: the Nx*    *)
(* operators give the documented behaviour of the calls the repository     *)
(* makes (networkx 2.8 semantics).                                         *)
(***************************************************************************)
EXTENDS Integers, Sequences, FiniteSets, TLC

VARIABLES
    pc,          \* "new" before __init__, "constructed" after it, "failed" if it raised
    heap,        \* object id -> networkx graph object (kind, nodes, adjacency)
    graphs,      \* self._graphs : sequence of object ids
    edge_types,  \* self._edge_types : sequence of names
    ret,         \* the last MixedEdgeGraph call: name, edge_type argument, outcome, value
    call,        \* the last m_separated call: arguments and outcome
    loop         \* the leaf-pruning loop of m_separated, one iteration per step

vars == <<pc, heap, graphs, edge_types, ret, call, loop>>

----------------------------------------------------------------------------
(* Bounds of the model. *)

\* Node identifiers are 1..MaxNode.
MaxNode == 2
\* An edge-adding call is taken only if it leaves the layer with at most this many edges.
MaxEdges == 1
\* The graphs handed to m_separated have their nodes in 1..MaxSepNode,
MaxSepNode == 3
\* hold at most this many directed edges ...
MaxDirEdges == 2
\* ... and at most this many bidirected edges.
MaxBiEdges == 1
\* Directed edges, self-loops included, of a graph given to the pruning loop.
MaxPruneEdges == 3

Nodes == 1..MaxNode

\* A hashable container (a tuple) used as a node is a node of its own; it is
\* given an identifier outside 1..MaxNode so that node sets stay sets of integers.
TupleNode(t) == 100 + 10 * (IF Len(t) >= 1 THEN t[1] ELSE 0) + (IF Len(t) >= 2 THEN t[2] ELSE 0)

\* The containers handed to add_nodes_from / remove_nodes_from.
Bunches == {<<1, 2>>}

\* The objects handed to remove_nodes_from: a list, which can be iterated any
\* number of times; iter(list), which can be iterated once; and G.nodes, the
\* view of the nodes of the first layer.
RemoveArgs ==
    {[kind |-> k, items |-> b] : k \in {"list", "iterator"}, b \in Bunches}
        \cup {[kind |-> "nodes", items |-> << >>]}

AllNodes == Nodes \cup {TupleNode(b) : b \in Bunches}

\* Edge-type names used by callers; "all" is the selector of get_graphs.
TypeNames == {"directed", "bidirected"}
UnknownType == "undirected"
Missing == "<missing>"
TypeArgs == TypeNames \cup {UnknownType, Missing}
SelectorArgs == TypeNames \cup {UnknownType, "all"}

NoError == "none"

----------------------------------------------------------------------------
(* networkx Graph / DiGraph objects.                                       *)
(* kind : "Graph" | "DiGraph" | "dict" (an object that is no graph)         *)
(* node : the set of nodes (_node)                                         *)
(* adj  : the adjacency (_adj / _succ) as a function from ordered pairs to *)
(*        the edge's attribute dict; a Graph stores each edge under both   *)
(*        orders, a DiGraph under one.                                     *)

EmptyDict == {}

\* dict.update: the entries of e replace those of d with the same key.
DictUpdate(d, e) == {p \in d : \A q \in e : q[1] # p[1]} \cup e

NxNew(kind) == [kind |-> kind, node |-> {}, adj |-> << >>]

IsDirected(g) == g.kind = "DiGraph"

Edges(g) == DOMAIN g.adj

Restrict(f, S) == [p \in S |-> f[p]]

\* Both stored orders of an edge in a Graph, the single one in a DiGraph.
Keys(g, u, v) == IF IsDirected(g) THEN {<<u, v>>} ELSE {<<u, v>>, <<v, u>>}

\* Graph.add_node(n)
NxAddNode(g, n) == [g |-> [g EXCEPT !.node = @ \cup {n}], err |-> NoError]

\* Graph.remove_node(n): NetworkXError when n is no node; the edges at n go too.
NxRemoveNode(g, n) ==
    IF n \notin g.node
    THEN [g |-> g, err |-> "NetworkXError"]
    ELSE [g |-> [g EXCEPT !.node = @ \ {n},
                          !.adj = Restrict(@, {p \in DOMAIN @ : p[1] # n /\ p[2] # n})],
          err |-> NoError]

\* Graph.remove_nodes_from(nodes): nodes that are missing are skipped silently.
NxRemoveNodesFrom(g, ns) ==
    [g |-> [g EXCEPT !.node = @ \ ns,
                     !.adj = Restrict(@, {p \in DOMAIN @ : p[1] \notin ns /\ p[2] \notin ns})],
     err |-> NoError]

\* Graph() followed by add_nodes_from(ns).
NxBuildNodes(kind, ns) == [NxNew(kind) EXCEPT !.node = ns]

\* Graph.add_edge(u, v, **attr): adds missing endpoints; updates the edge's dict.
NxAddEdge(g, u, v, attr) ==
    LET old == IF <<u, v>> \in DOMAIN g.adj THEN g.adj[<<u, v>>] ELSE EmptyDict
        dd  == DictUpdate(old, attr)
        ks  == Keys(g, u, v)
    IN [g |-> [g EXCEPT !.node = @ \cup {u, v},
                        !.adj = [p \in (DOMAIN @) \cup ks |-> IF p \in ks THEN dd ELSE @[p]]],
        err |-> NoError]

\* A dict of the model is a set of <<key, value>> pairs; the other values an
\* edge tuple carries are integers and None.  The values are told apart by
\* their printed form: that of a set starts with a brace.
IsDict(v) == Head(ToString(v)) = "{"

\* Graph.add_edges_from(ebunch): a 2-tuple (u, v) is an edge, a 3-tuple
\* (u, v, dd) an edge with the data dict dd, any other length raises
\* NetworkXError.  The end points are added before the edge's dict is updated
\* with dd, which raises TypeError when dd is not a dict.  The edges before the
\* bad tuple have been added.
RECURSIVE NxAddEdgesFrom(_, _)
NxAddEdgesFrom(g, ebunch) ==
    IF ebunch = << >> THEN [g |-> g, err |-> NoError]
    ELSE LET e == Head(ebunch) IN
         IF Len(e) \notin {2, 3} THEN [g |-> g, err |-> "NetworkXError"]
         ELSE IF Len(e) = 3 /\ ~IsDict(e[3])
         THEN [g |-> [g EXCEPT !.node = @ \cup {e[1], e[2]}], err |-> "TypeError"]
         ELSE NxAddEdgesFrom(NxAddEdge(g, e[1], e[2], IF Len(e) = 3 THEN e[3] ELSE EmptyDict).g,
                             Tail(ebunch))

\* Graph.remove_edge(u, v): NetworkXError when the edge is absent.
NxRemoveEdge(g, u, v) ==
    IF <<u, v>> \notin DOMAIN g.adj
    THEN [g |-> g, err |-> "NetworkXError"]
    ELSE [g |-> [g EXCEPT !.adj = Restrict(@, (DOMAIN @) \ Keys(g, u, v))], err |-> NoError]

\* Graph.remove_edges_from(ebunch): each element is unpacked by `u, v = e[:2]`,
\* which raises ValueError on a tuple shorter than two, the edges before it
\* having been removed; edges that are absent are skipped silently.
RECURSIVE NxRemoveEdgesFrom(_, _)
NxRemoveEdgesFrom(g, ebunch) ==
    IF ebunch = << >> THEN [g |-> g, err |-> NoError]
    ELSE LET e == Head(ebunch) IN
         IF Len(e) < 2 THEN [g |-> g, err |-> "ValueError"]
         ELSE NxRemoveEdgesFrom(NxRemoveEdge(g, e[1], e[2]).g, Tail(ebunch))

\* Graph.clear()
NxClear(g) == [g |-> [g EXCEPT !.node = {}, !.adj = << >>], err |-> NoError]

\* Graph.clear_edges()
NxClearEdges(g) == [g |-> [g EXCEPT !.adj = << >>], err |-> NoError]

\* Graph.has_edge(u, v)
NxHasEdge(g, u, v) == <<u, v>> \in DOMAIN g.adj

\* Graph.size(): every edge once (a Graph stores a non-loop edge twice).
NxSize(g) ==
    IF IsDirected(g) THEN Cardinality(Edges(g))
    ELSE Cardinality({p \in Edges(g) : p[1] <= p[2]})

\* Graph.number_of_edges(u, v): the size when u is None (given = FALSE);
\* otherwise 1 or 0, and KeyError when u is not a node (the lookup self._adj[u]).
NxNumberOfEdges(g, given, u, v) ==
    IF ~given THEN [val |-> NxSize(g), err |-> NoError]
    ELSE IF u \notin g.node THEN [val |-> 0, err |-> "KeyError"]
    ELSE [val |-> IF <<u, v>> \in DOMAIN g.adj THEN 1 ELSE 0, err |-> NoError]

----------------------------------------------------------------------------
(* MixedEdgeGraph *)

Ret(op, et, status, val) == [op |-> op, et |-> et, status |-> status, val |-> val]

None == "None"

\* A call that never reaches line 69 reads no order.
NoOrder == [nodes |-> << >>, edges |-> << >>]

NoCall == [g |-> "-", x |-> {}, y |-> {}, z |-> {}, bname |-> "-", dname |-> "-",
           ord |-> NoOrder, status |-> "-", stage |-> "-", val |-> FALSE]

\* The pruning loop has not been entered.
NoLoop == [stage |-> "idle"]

Range(s) == {s[i] : i \in DOMAIN s}

\* list.index(x): the first position holding x.
IndexOf(s, x) == CHOOSE i \in DOMAIN s : s[i] = x /\ \A j \in 1..(i - 1) : s[j] # x

\* __init__ without the comparison of the two lengths.
InitErrorNoLengthCheck(objs, ets) ==
    IF \E i \in DOMAIN objs : objs[i].kind \notin {"Graph", "DiGraph"} THEN "RuntimeError"
    ELSE NoError

\* Lines 46-50 of __init__: the two checks on the arguments.
InitError(objs, ets) ==
    IF Len(objs) # Len(ets) THEN "RuntimeError"
    ELSE IF \E i \in DOMAIN objs : objs[i].kind \notin {"Graph", "DiGraph"} THEN "RuntimeError"
    ELSE NoError

\* The call one of the loops `for graph in self._graphs: graph.<op>(arg)` makes.
LayerCall(op, g, arg) ==
    CASE op = "add_node"          -> NxAddNode(g, arg)
      [] op = "remove_node"       -> NxRemoveNode(g, arg)
      [] op = "remove_nodes_from" -> NxRemoveNodesFrom(g, arg)
      [] op = "clear"             -> NxClear(g)
      [] op = "clear_edges"       -> NxClearEdges(g)

\* `for graph in self._graphs: graph.<op>(arg)`: the layers are visited in list
\* order; an exception leaves the loop with the earlier layers already changed.
RECURSIVE ForEachGraph(_, _, _, _)
ForEachGraph(op, h, ids, arg) ==
    IF ids = << >> THEN [heap |-> h, err |-> NoError]
    ELSE LET r == LayerCall(op, h[Head(ids)], arg) IN
         IF r.err # NoError THEN [heap |-> h, err |-> r.err]
         ELSE ForEachGraph(op, [h EXCEPT ![Head(ids)] = r.g], Tail(ids), arg)

\* `for graph in self._graphs: graph.remove_nodes_from(nodes)`: every layer is
\* handed the same object `nodes`. The outcomes the call can have:
\*   a list is iterated afresh by every layer;
\*   an iterator is used up by the first layer, and the later layers iterate
\*   nothing;
\*   G.nodes iterates the node dict of the first layer, which that layer is
\*   deleting from: after the first deletion the iteration raises RuntimeError,
\*   and the node deleted is the first of the layer's iteration order, which is
\*   any of its nodes. When the first layer has no node, no layer iterates
\*   anything.
RemoveNodesFromResults(h, ids, arg) ==
    IF ids = << >> THEN {[heap |-> h, err |-> NoError]}
    ELSE CASE arg.kind = "list" ->
                {ForEachGraph("remove_nodes_from", h, ids, Range(arg.items))}
           [] arg.kind = "iterator" ->
                {ForEachGraph("remove_nodes_from",
                     ForEachGraph("remove_nodes_from", h, <<Head(ids)>>, Range(arg.items)).heap,
                     Tail(ids), {})}
           [] arg.kind = "nodes" ->
                IF h[Head(ids)].node = {} THEN {[heap |-> h, err |-> NoError]}
                ELSE {[heap |-> [h EXCEPT ![Head(ids)] = NxRemoveNodesFrom(@, {n}).g],
                       err |-> "RuntimeError"] : n \in h[Head(ids)].node}

\* A lookup that answers an unregistered name with the first layer.
GetSubGraphDefault(ets, gs, t) ==
    IF t \notin Range(ets)
    THEN IF gs = << >> THEN [id |-> 0, err |-> "ValueError"] ELSE [id |-> gs[1], err |-> NoError]
    ELSE [id |-> gs[IndexOf(ets, t)], err |-> NoError]

\* _get_sub_graph(edge_type): the object id of the layer, or ValueError.
GetSubGraph(ets, gs, t) ==
    IF t \notin Range(ets) THEN [id |-> 0, err |-> "ValueError"]
    ELSE [id |-> gs[IndexOf(ets, t)], err |-> NoError]

\* get_graphs(edge_type): "all" gives the list, a registered name its layer.
GetGraphsResult(ets, gs, t) ==
    IF t \notin Range(ets) /\ t # "all" THEN [val |-> None, err |-> "ValueError"]
    ELSE IF t = "all" THEN [val |-> gs, err |-> NoError]
    ELSE [val |-> gs[IndexOf(ets, t)], err |-> NoError]

\* The nodes property: the NodeView of the first graph.
GNodes(h, gs) == h[gs[1]].node

----------------------------------------------------------------------------
(* Inputs of the calls *)

\* Graph objects a caller hands to the constructor: empty ones, the two graphs of
\* examples/plot_mixed_edge_graph.py (X = 1, Y = 2, Z = 3) and an object that is
\* no graph.
ExampleDirected == NxAddEdgesFrom(NxNew("DiGraph"), << <<1, 2>>, <<3, 1>> >>).g
ExampleBidirected == NxAddEdgesFrom(NxNew("Graph"), << <<1, 2>> >>).g

\* The lists handed to the constructor.
ObjLists ==
    { << >>, <<NxNew("DiGraph")>>, <<NxNew("dict")>>,
      <<NxNew("DiGraph"), NxNew("Graph")>>, <<NxNew("Graph"), NxNew("DiGraph")>>,
      <<ExampleDirected, ExampleBidirected>>, <<NxNew("DiGraph"), NxNew("dict")>> }

EdgeTypeLists ==
    { << >>, <<"directed">>, <<"directed", "bidirected">>, <<"bidirected", "directed">>,
      <<"directed", "directed">> }

\* ebunch arguments: edge tuples, one of them with a tuple of the wrong length.
EBunches ==
    { << >>, << <<1, 2>> >>, << <<2, 1>>, <<2, 2>> >>, << <<1, 1>>, <<2>> >>, << <<2>>, <<2, 2>> >>,
      << <<1, 2, {}>>, <<2, 1, 1>> >> }

\* The attribute dict add_edge hands to networkx: its own `key` parameter, None
\* by default, travels as a keyword argument.
KeyAttr == {<<"key", "None">>}

----------------------------------------------------------------------------
(* The actions: one per method *)

Init ==
    /\ pc = "new"
    /\ heap = << >>
    /\ graphs = << >>
    /\ edge_types = << >>
    /\ ret = Ret("-", "-", "-", None)
    /\ call = NoCall
    /\ loop = NoLoop

\* What a constructor call was given: the two lengths and whether every element
\* of `graphs` is a networkx Graph or DiGraph.
InitArgs(objs, ets) ==
    [ngraphs |-> Len(objs), ntypes |-> Len(ets),
     allgraphs |-> \A i \in DOMAIN objs : objs[i].kind \in {"Graph", "DiGraph"}]

\* MixedEdgeGraph(graphs, edge_types); with `same` the list holds one object twice.
Construct(objs, ets, same) ==
    /\ pc = "new"
    /\ LET err == InitError(objs, ets) IN
       IF err # NoError
       THEN /\ pc' = "failed"
            /\ ret' = Ret("__init__", "-", err, InitArgs(objs, ets))
            /\ UNCHANGED <<heap, graphs, edge_types>>
       ELSE /\ pc' = "constructed"
            /\ heap' = IF same /\ Len(objs) = 2 THEN <<objs[1]>> ELSE objs
            /\ graphs' = IF same /\ Len(objs) = 2 THEN <<1, 1>> ELSE [i \in DOMAIN objs |-> i]
            /\ edge_types' = ets
            /\ ret' = Ret("__init__", "-", NoError, InitArgs(objs, ets))
    /\ UNCHANGED <<call, loop>>

\* A method whose body is one loop over the layers.
LoopMethod(op, arg) ==
    /\ pc = "constructed"
    /\ \E r \in {ForEachGraph(op, heap, graphs, arg)} :
       /\ heap' = r.heap
       /\ ret' = Ret(op, "-", r.err, None)
    /\ UNCHANGED <<pc, graphs, edge_types, call, loop>>

AddNode(n) == LoopMethod("add_node", n)

\* add_nodes_from(nodes_for_adding) calls graph.add_node(nodes_for_adding): the
\* container itself becomes the node; a list is unhashable and raises TypeError
\* in the first layer.
AddNodesFrom(b, hashable) ==
    /\ pc = "constructed"
    /\ IF hashable \/ graphs = << >>
       THEN LET r == ForEachGraph("add_node", heap, graphs, TupleNode(b)) IN
            /\ heap' = r.heap
            /\ ret' = Ret("add_nodes_from", "-", r.err, None)
       ELSE /\ heap' = heap
            /\ ret' = Ret("add_nodes_from", "-", "TypeError", None)
    /\ UNCHANGED <<pc, graphs, edge_types, call, loop>>

RemoveNode(n) == LoopMethod("remove_node", n)

\* remove_nodes_from(nodes); G.nodes is NodeView(self._graphs[0]), which exists
\* only when there is a layer.
RemoveNodesFrom(arg) ==
    /\ pc = "constructed"
    /\ arg.kind = "nodes" => graphs # << >>
    /\ \E r \in RemoveNodesFromResults(heap, graphs, arg) :
         /\ heap' = r.heap
         /\ ret' = Ret("remove_nodes_from", "-", r.err, None)
    /\ UNCHANGED <<pc, graphs, edge_types, call, loop>>

Clear == LoopMethod("clear", None)

ClearEdges == LoopMethod("clear_edges", None)

\* A method that changes nothing.
Query(op, t, err, val) ==
    /\ pc = "constructed"
    /\ ret' = Ret(op, t, err, val)
    /\ UNCHANGED <<pc, heap, graphs, edge_types, call, loop>>

GetGraphs(t) ==
    LET r == GetGraphsResult(edge_types, graphs, t) IN Query("get_graphs", t, r.err, r.val)

HasNode(n) ==
    IF graphs = << >> THEN Query("has_node", "-", "IndexError", None)
    ELSE Query("has_node", "-", NoError, n \in heap[graphs[1]].node)

\* has_node(n) and `n in G` as a value: both look at self._graphs[0] only.
HasNodeResult(h, gs, n) ==
    IF gs = << >> THEN [val |-> None, err |-> "IndexError"]
    ELSE [val |-> n \in h[gs[1]].node, err |-> NoError]

\* len(self.nodes), the body of __len__, number_of_nodes and order.
NumberOfNodesResult(h, gs) ==
    IF gs = << >> THEN [val |-> None, err |-> "IndexError"]
    ELSE [val |-> Cardinality(GNodes(h, gs)), err |-> NoError]

\* The methods that return len(self.nodes).
CountMethods == {"__len__", "number_of_nodes", "order"}

NumberOfNodes(op) ==
    LET r == NumberOfNodesResult(heap, graphs) IN Query(op, "-", r.err, r.val)

HasEdge(u, v, t) ==
    LET s == GetSubGraph(edge_types, graphs, t) IN
    IF t = Missing THEN Query("has_edge", t, "TypeError", None)
    ELSE IF s.err # NoError THEN Query("has_edge", t, s.err, None)
    ELSE Query("has_edge", t, NoError, NxHasEdge(heap[s.id], u, v))

\* A method that sends one networkx call to the layer named by edge_type.
\* `r` is that call's outcome on the layer, `s` the lookup of the layer.
EdgeMethod(op, t, s, r) ==
    /\ pc = "constructed"
    /\ IF t = Missing
       THEN /\ heap' = heap
            /\ ret' = Ret(op, t, "TypeError", None)
       ELSE IF s.err # NoError
       THEN /\ heap' = heap
            /\ ret' = Ret(op, t, s.err, None)
       ELSE \E done \in {r} :
            /\ NxSize(done.g) <= MaxEdges
            /\ heap' = [heap EXCEPT ![s.id] = done.g]
            /\ ret' = Ret(op, t, done.err, None)
    /\ UNCHANGED <<pc, graphs, edge_types, call, loop>>

AddEdge(u, v, t) ==
    LET s == GetSubGraph(edge_types, graphs, t) IN
    EdgeMethod("add_edge", t, s, IF s.err = NoError THEN NxAddEdge(heap[s.id], u, v, KeyAttr) ELSE s)

AddEdgesFrom(eb, t) ==
    LET s == GetSubGraph(edge_types, graphs, t) IN
    EdgeMethod("add_edges_from", t, s, IF s.err = NoError THEN NxAddEdgesFrom(heap[s.id], eb) ELSE s)

RemoveEdge(u, v, t) ==
    LET s == GetSubGraph(edge_types, graphs, t) IN
    EdgeMethod("remove_edge", t, s, IF s.err = NoError THEN NxRemoveEdge(heap[s.id], u, v) ELSE s)

RemoveEdgesFrom(eb, t) ==
    LET s == GetSubGraph(edge_types, graphs, t) IN
    EdgeMethod("remove_edges_from", t, s,
               IF s.err = NoError THEN NxRemoveEdgesFrom(heap[s.id], eb) ELSE s)

\* The last position of x in the sequence s.
LastIndexOf(s, x) == CHOOSE i \in DOMAIN s : s[i] = x /\ \A j \in (i + 1)..Len(s) : s[j] # x

\* The adj property: a dict from each edge type to the adjacency of its layer,
\* built from zip(edge_types, graphs); of two layers under one name the later
\* one stays in the dict.
Adj(h, gs, ets) == [t \in Range(ets) |-> h[gs[LastIndexOf(ets, t)]].adj]

\* number_of_edges(edge_type=t): the size of layer t.
NumberOfEdges(t) ==
    LET s == GetSubGraph(edge_types, graphs, t) IN
    IF s.err # NoError THEN Query("number_of_edges", t, s.err, None)
    ELSE Query("number_of_edges", t, NoError, NxSize(heap[s.id]))

\* Lines 660-663: the loop that adds up graph.number_of_edges(u, v).
RECURSIVE SumNumberOfEdges(_, _, _, _, _)
SumNumberOfEdges(h, ids, given, u, v) ==
    IF ids = << >> THEN [val |-> 0, err |-> NoError]
    ELSE LET r == NxNumberOfEdges(h[Head(ids)], given, u, v) IN
         IF r.err # NoError THEN [val |-> None, err |-> r.err]
         ELSE LET rest == SumNumberOfEdges(h, Tail(ids), given, u, v) IN
              IF rest.err # NoError THEN rest ELSE [val |-> r.val + rest.val, err |-> NoError]

\* number_of_edges(u, v, edge_type): t = Missing is the default edge_type=None,
\* given = FALSE the default u=None, v=None.
NumberOfEdgesResult(h, gs, ets, given, u, v, t) ==
    IF t # Missing
    THEN LET s == GetSubGraph(ets, gs, t) IN
         IF s.err # NoError THEN [val |-> None, err |-> s.err]
         ELSE NxNumberOfEdges(h[s.id], given, u, v)
    ELSE SumNumberOfEdges(h, gs, given, u, v)

\* number_of_edges() and number_of_edges(u, v) over all layers.
NumberOfEdgesAll(given, u, v) ==
    LET r == NumberOfEdgesResult(heap, graphs, edge_types, given, u, v, Missing) IN
    Query("number_of_edges", Missing, r.err, r.val)

\* G = self.__class__() on line 532: __init__ has two required parameters.
ConstructNoArgs == "TypeError"

\* A copy that hands back the graph itself.
CopyAlias(h, gs, ets) == [err |-> NoError, h |-> h, gs |-> gs]

\* copy(): the new graph's layers live in h under the ids gs.  The lines after
\* 532 read self._node, which a MixedEdgeGraph does not have.
CopyResult(h, gs, ets) ==
    IF ConstructNoArgs # NoError THEN [err |-> ConstructNoArgs, h |-> h, gs |-> << >>]
    ELSE [err |-> "AttributeError", h |-> h, gs |-> << >>]

\* copy(as_view): with as_view the call goes to networkx generic_graph_view,
\* which also starts with G.__class__().
Copy(as_view) ==
    LET r == CopyResult(heap, graphs, edge_types) IN
    Query("copy", "-", r.err, IF r.err = NoError THEN [h |-> r.h, gs |-> r.gs] ELSE None)

\* len(name) of the edge-type names in use.
NameLen(t) ==
    CASE t = "directed" -> 8
      [] t = "bidirected" -> 10
      [] t = "undirected" -> 10

\* to_undirected(): line 598 reads self._graphs[0]; the generator of lines
\* 601-606 iterates the dict self.adj, that is its keys, and unpacks the first
\* edge-type name into two variables.
ToUndirectedResult(h, gs, ets) ==
    IF gs = << >> THEN [val |-> None, err |-> "IndexError"]
    ELSE IF NameLen(ets[1]) # 2 THEN [val |-> None, err |-> "ValueError"]
    ELSE [val |-> None, err |-> "AttributeError"]

ToUndirected ==
    LET r == ToUndirectedResult(heap, graphs, edge_types) IN Query("to_undirected", "-", r.err, r.val)

\* The name f"U{idx}" of convert.py line 33.
UNode(idx) == 200 + idx

\* bidirected_to_unobserved_confounder(G, bname): lines 28-42.  The first pass
\* of the loop adds the node U0 to the copy and calls add_edge without an edge
\* type.
ConvertResult(h, gs, ets, bname) ==
    LET c == CopyResult(h, gs, ets) IN
    IF c.err # NoError THEN [heap |-> h, err |-> c.err, val |-> None]
    ELSE LET sub == GetGraphsResult(ets, gs, bname) IN
         IF sub.err # NoError THEN [heap |-> c.h, err |-> sub.err, val |-> None]
         ELSE IF Edges(h[sub.val]) = {} THEN [heap |-> c.h, err |-> NoError, val |-> c.gs]
         ELSE LET a == ForEachGraph("add_node", c.h, c.gs, UNode(0)) IN
              IF a.err # NoError THEN [heap |-> a.heap, err |-> a.err, val |-> None]
              ELSE [heap |-> a.heap, err |-> "TypeError", val |-> None]

BidirectedToUnobservedConfounder(bname) ==
    /\ pc = "constructed"
    /\ LET r == ConvertResult(heap, graphs, edge_types, bname) IN
       /\ heap' = r.heap
       /\ ret' = Ret("bidirected_to_unobserved_confounder", bname, r.err, r.val)
    /\ UNCHANGED <<pc, graphs, edge_types, call, loop>>

Next ==
    \/ \E objs \in ObjLists, ets \in EdgeTypeLists, same \in BOOLEAN : Construct(objs, ets, same)
    \/ \E n \in AllNodes : AddNode(n)
    \/ \E b \in Bunches, hashable \in BOOLEAN : AddNodesFrom(b, hashable)
    \/ \E n \in AllNodes : RemoveNode(n)
    \/ \E arg \in RemoveArgs : RemoveNodesFrom(arg)
    \/ Clear
    \/ ClearEdges
    \/ \E t \in SelectorArgs : GetGraphs(t)
    \/ \E n \in Nodes : HasNode(n)
    \/ \E u \in Nodes, v \in Nodes, t \in TypeArgs : HasEdge(u, v, t)
    \/ \E u \in Nodes, v \in Nodes, t \in TypeArgs : AddEdge(u, v, t)
    \/ \E eb \in EBunches, t \in TypeArgs : AddEdgesFrom(eb, t)
    \/ \E u \in Nodes, v \in Nodes, t \in TypeArgs : RemoveEdge(u, v, t)
    \/ \E eb \in EBunches, t \in TypeArgs : RemoveEdgesFrom(eb, t)
    \/ \E t \in TypeArgs \ {Missing} : NumberOfEdges(t)
    \/ \E given \in BOOLEAN : NumberOfEdgesAll(given, 1, 2)
    \/ \E op \in CountMethods : NumberOfNodes(op)
    \/ \E as_view \in BOOLEAN : Copy(as_view)
    \/ ToUndirected
    \/ \E bname \in {"bidirected", "undirected"} : BidirectedToUnobservedConfounder(bname)

Spec == Init /\ [][Next]_vars

----------------------------------------------------------------------------
(* Node mutations on a graph of three layers *)

\* The graph is MixedEdgeGraph([D, B, U], ["directed", "bidirected", "undirected"])
\* for three edge-less networkx graphs with any nodes.
InitLayers ==
    /\ pc = "constructed"
    /\ graphs = <<1, 2, 3>>
    /\ edge_types = <<"directed", "bidirected", "undirected">>
    /\ \E A \in SUBSET Nodes, B \in SUBSET Nodes, C \in SUBSET Nodes :
         heap = <<NxBuildNodes("DiGraph", A), NxBuildNodes("Graph", B), NxBuildNodes("Graph", C)>>
    /\ ret = Ret("__init__", "-", NoError, [ngraphs |-> 3, ntypes |-> 3, allgraphs |-> TRUE])
    /\ call = NoCall
    /\ loop = NoLoop

NextLayers ==
    \/ \E n \in Nodes : AddNode(n)
    \/ \E n \in Nodes : RemoveNode(n)

SpecLayers == InitLayers /\ [][NextLayers]_vars

----------------------------------------------------------------------------
(* update (mixedgraph.py 666-780) on a graph of three layers *)

\* add_nodes_from(nodes_for_adding) as a value: graph.add_node(nodes_for_adding)
\* in every layer, the container itself being the node; a list is unhashable
\* and raises TypeError in the first layer.
AddNodesFromResult(h, gs, b, hashable) ==
    IF hashable \/ gs = << >>
    THEN ForEachGraph("add_node", h, gs, TupleNode(b))
    ELSE [heap |-> h, err |-> "TypeError"]

\* update(edges, nodes, edge_type) for edges a list of edge tuples or None and
\* nodes a tuple or a list of nodes or None.  Lines 763-764 and 772 call
\* self.add_edges_from(edges) without its required argument edge_type, which
\* raises TypeError; the parameter edge_type of update is not used.
UpdateResult(h, gs, hasEdges, hasNodes, b, hashable) ==
    IF hasEdges
    THEN IF hasNodes
         THEN LET r == AddNodesFromResult(h, gs, b, hashable) IN
              IF r.err # NoError THEN r ELSE [heap |-> r.heap, err |-> "TypeError"]
         ELSE [heap |-> h, err |-> "TypeError"]
    ELSE IF hasNodes THEN AddNodesFromResult(h, gs, b, hashable)
    ELSE [heap |-> h, err |-> "NetworkXError"]

\* The edge types update is called with: a registered name or none.
UpdateTypes == {"undirected", Missing}

\* The edges argument, when given: the list [(1, 2)].
UpdateEdges == << <<1, 2>> >>

Update(hasEdges, hasNodes, b, hashable, t) ==
    /\ pc = "constructed"
    /\ \E r \in {UpdateResult(heap, graphs, hasEdges, hasNodes, b, hashable)} :
         /\ heap' = r.heap
         /\ ret' = Ret("update", t, r.err, [edges |-> hasEdges, nodes |-> hasNodes, bunch |-> b,
                                         hashable |-> hashable])
    /\ UNCHANGED <<pc, graphs, edge_types, call, loop>>

NextUpdate ==
    \E hasEdges \in BOOLEAN, hasNodes \in BOOLEAN, b \in Bunches, hashable \in BOOLEAN, t \in UpdateTypes :
        Update(hasEdges, hasNodes, b, hashable, t)

SpecUpdate == InitLayers /\ [][NextUpdate]_vars

----------------------------------------------------------------------------
(* m_separated (algorithms/causal/m_separation.py) *)

\* networkx iterates over nodes, neighbours and edges in insertion order, which
\* the node set and the edge set of a graph of the model do not record.  The
\* order enters m_separated as an input `ord` of the call: ord.nodes is the
\* sequence that G.nodes yields and ord.edges the sequence that the .edges of
\* the directed layer yields.

\* The elements of S in ascending order.
RECURSIVE SortedSeq(_)
SortedSeq(S) ==
    IF S = {} THEN << >>
    ELSE LET m == CHOOSE a \in S : \A b \in S : a <= b IN <<m>> \o SortedSeq(S \ {m})

\* The elements of a set as a sequence, in some fixed order.
RECURSIVE SeqOf(_)
SeqOf(S) ==
    IF S = {} THEN << >>
    ELSE LET m == CHOOSE a \in S : TRUE IN <<m>> \o SeqOf(S \ {m})

\* graph.edges of a layer: every edge once, as a 2-tuple.
EdgeList(g) == IF IsDirected(g) THEN Edges(g) ELSE {p \in Edges(g) : p[1] <= p[2]}

\* nx.DiGraph() / nx.Graph() filled with add_nodes_from(ns) and add_edges_from(es).
NxBuild(kind, ns, es) ==
    LET g0 == [kind |-> kind, node |-> ns, adj |-> << >>] IN
    NxAddEdgesFrom(g0, SeqOf(es)).g

\* Every sequence that holds each element of S once.
Perms(S) ==
    IF S = {} THEN {<< >>}
    ELSE {q \in [1..Cardinality(S) -> S] : \A i, j \in 1..Cardinality(S) : q[i] = q[j] => i = j}

\* The sequences that g.edges can yield when the nodes of g iterate in the order
\* no: node by node, the edges of one node in the order in which its neighbours
\* were inserted, which is any order.  A Graph yields an edge once, at the end
\* point that comes first.
EdgeOrders(g, no) ==
    LET E == IF IsDirected(g) THEN Edges(g)
             ELSE {p \in Edges(g) : IndexOf(no, p[1]) <= IndexOf(no, p[2])}
    IN {es \in Perms(E) : \A i, j \in DOMAIN es :
                             i < j => IndexOf(no, es[i][1]) <= IndexOf(no, es[j][1])}

\* The orders in which G.nodes (the nodes of the first layer) and the edges of
\* the layer with object id `id` can iterate.
InsertionOrders(h, gs, id) ==
    UNION {UNION {{[nodes |-> ns, edges |-> es] : es \in EdgeOrders(h[id], no)}
                  : no \in IF gs[1] = id THEN {ns} ELSE Perms(h[id].node)}
           : ns \in Perms(GNodes(h, gs))}

\* G_copy.predecessors(n) in iteration order: the sources of the edges into n
\* that G_copy D still has, in the order es in which line 73 added the edges.
PredecessorSeq(D, es, n) ==
    LET into == SelectSeq(es, LAMBDA e : e \in Edges(D) /\ e[2] = n)
    IN [i \in DOMAIN into |-> into[i][1]]

OutDegree(g, n) == Cardinality({p \in Edges(g) : p[1] = n})

\* The precondition without the check of bidirected_edge_name.
MSepPreconditionDirectedOnly(isMixed, ets, bname, dname) ==
    IF ~isMixed THEN "RuntimeError"
    ELSE IF dname \notin Range(ets) THEN "RuntimeError"
    ELSE NoError

\* Lines 53-66: the two precondition checks.
MSepPrecondition(isMixed, ets, bname, dname) ==
    IF ~isMixed THEN "RuntimeError"
    ELSE IF bname \notin Range(ets) \/ dname \notin Range(ets) THEN "RuntimeError"
    ELSE NoError

\* Lines 84-91: the loop over the deque `leaves`.  D is G_copy, B is
\* G_bidirected, es the edges of G_copy in the order of their insertion.  A leaf
\* outside x | y | z is removed from both; its predecessors with out-degree 1
\* are appended first.
RECURSIVE PruneLeaves(_, _, _, _, _)
PruneLeaves(D, B, leaves, union_xyz, es) ==
    IF leaves = << >> THEN [D |-> D, B |-> B, err |-> NoError]
    ELSE LET leaf == Head(leaves)
             rest == Tail(leaves)
         IN IF leaf \in union_xyz THEN PruneLeaves(D, B, rest, union_xyz, es)
            ELSE LET more == SelectSeq(PredecessorSeq(D, es, leaf), LAMBDA p : OutDegree(D, p) = 1)
                     rd   == NxRemoveNode(D, leaf)
                     rb   == NxRemoveNode(B, leaf)
                 IN IF rd.err # NoError THEN [D |-> D, B |-> B, err |-> rd.err]
                    ELSE IF rb.err # NoError THEN [D |-> rd.g, B |-> B, err |-> rb.err]
                    ELSE PruneLeaves(rd.g, rb.g, rest \o more, union_xyz, es)

\* The in-edges of the nodes of z removed instead.
RemoveInEdges(D, z) == [D EXCEPT !.adj = Restrict(@, {p \in DOMAIN @ : p[2] \notin z})]

\* Lines 94-95: remove the out-edges of the nodes of z.
RemoveOutEdges(D, z) == [D EXCEPT !.adj = Restrict(@, {p \in DOMAIN @ : p[1] \notin z})]

\* networkx.utils.UnionFind, as the partition it maintains.
UFInit(S) == {{n} : n \in S}

\* self[x]: an unknown object becomes a set of its own.
UFTouch(P, objs) == P \cup {{n} : n \in {m \in objs : \A blk \in P : m \notin blk}}

\* union(*objs): merges the sets holding the objects; no objects, no change.
UFUnion(P, objs) ==
    IF objs = {} THEN P
    ELSE LET Q   == UFTouch(P, objs)
             hit == {blk \in Q : blk \cap objs # {}}
         IN (Q \ hit) \cup {UNION hit}

UFFind(P, n) == CHOOSE blk \in UFTouch(P, {n}) : n \in blk

\* nx.connected_components(F): the component of each node of F.
RECURSIVE Component(_, _)
Component(F, S) ==
    LET T == S \cup {p[2] : p \in {q \in Edges(F) : q[1] \in S}} IN
    IF T = S THEN S ELSE Component(F, T)

Components(F) == {Component(F, {n}) : n \in F.node}

RECURSIVE UnionAll(_, _)
UnionAll(P, comps) ==
    IF comps = {} THEN P
    ELSE LET c == CHOOSE c \in comps : TRUE IN UnionAll(UFUnion(P, c), comps \ {c})

\* The answer without the merge of the connected components of G_final.
SeparatedInNoComponents(D, B, x, y) ==
    LET F  == NxBuild("Graph", {}, EdgeList(D) \cup EdgeList(B))
        P1 == UFUnion(UFInit(F.node), x)
        P2 == UFUnion(P1, y)
    IN IF x # {} /\ y # {}
          /\ UFFind(P2, CHOOSE a \in x : TRUE) = UFFind(P2, CHOOSE b \in y : TRUE)
       THEN FALSE ELSE TRUE

\* The answer without the merge of the nodes of y.
SeparatedInNoUnionY(D, B, x, y) ==
    LET F  == NxBuild("Graph", {}, EdgeList(D) \cup EdgeList(B))
        P0 == UnionAll(UFInit(F.node), Components(F))
        P1 == UFUnion(P0, x)
    IN IF x # {} /\ y # {}
          /\ UFFind(P1, CHOOSE a \in x : TRUE) = UFFind(P1, CHOOSE b \in y : TRUE)
       THEN FALSE ELSE TRUE

\* Lines 98-114: G_final from the remaining edges, the disjoint sets, the answer.
\* (Line 99 adds the nodes of G_final to itself, that is none: G_final has the
\* end points of its edges as nodes.)
SeparatedIn(D, B, x, y) ==
    LET F  == NxBuild("Graph", {}, EdgeList(D) \cup EdgeList(B))
        P0 == UnionAll(UFInit(F.node), Components(F))
        P1 == UFUnion(P0, x)
        P2 == UFUnion(P1, y)
    IN IF x # {} /\ y # {}
          /\ UFFind(P2, CHOOSE a \in x : TRUE) = UFFind(P2, CHOOSE b \in y : TRUE)
       THEN FALSE ELSE TRUE

\* Lines 69-73: G_copy has the nodes of G.nodes and the edges that the .edges
\* of the directed layer yields, the sequence es.
DirectedCopy(h, gs, es) == NxBuild("DiGraph", GNodes(h, gs), Range(es))

\* Lines 76-78: G_bidirected has the nodes of G.nodes and the edges of the layer
\* with object id `id`.
BidirectedCopy(h, gs, id) == NxBuild("Graph", GNodes(h, gs), EdgeList(h[id]))

\* The edges E by source node, then by neighbour, ascending.
RECURSIVE SortedEdgeSeq(_)
SortedEdgeSeq(E) ==
    IF E = {} THEN << >>
    ELSE LET m == CHOOSE a \in E : \A b \in E :
                      a[1] < b[1] \/ (a[1] = b[1] /\ a[2] <= b[2])
         IN <<m>> \o SortedEdgeSeq(E \ {m})

\* add_edges_from on a graph whose nodes are ord: an end point that is not a
\* node yet is inserted after the nodes already there, u before v.
RECURSIVE AppendEndPoints(_, _)
AppendEndPoints(ord, es) ==
    IF es = << >> THEN ord
    ELSE LET e  == Head(es)
             o1 == IF e[1] \in Range(ord) THEN ord ELSE Append(ord, e[1])
             o2 == IF e[2] \in Range(o1) THEN o1 ELSE Append(o1, e[2])
         IN AppendEndPoints(o2, Tail(es))

\* G_copy.nodes in iteration order: the nodes of G.nodes (the first layer),
\* then the end points of the directed layer's edges that G.nodes lacks.
CopyNodeOrder(ord) == AppendEndPoints(ord.nodes, ord.edges)

\* The order of a graph whose layers got their nodes, and each node its
\* neighbours, in ascending order.
AscendingOrder(h, gs, id) ==
    [nodes |-> SortedSeq(GNodes(h, gs)), edges |-> SortedEdgeSeq(EdgeList(h[id]))]

\* The leaves of line 83: the nodes of G_copy, in iteration order ord, whose
\* out-degree is 0.
InitialLeaves(D, ord) == SelectSeq(ord, LAMBDA n : n \in D.node /\ OutDegree(D, n) = 0)

\* What the loop reads of an order: the deque of line 83 and the edges.
OrderKey(h, gs, ord) ==
    <<InitialLeaves(DirectedCopy(h, gs, ord.edges), CopyNodeOrder(ord)), ord.edges>>

\* One of the insertion orders for every deque and edge order they give.
OrderReps(h, gs, id) ==
    LET all == InsertionOrders(h, gs, id) IN
    {CHOOSE o \in all : OrderKey(h, gs, o) = k : k \in {OrderKey(h, gs, o) : o \in all}}

\* m_separated(G, x, y, z, bidirected_edge_name, directed_edge_name) on a graph
\* whose nodes and directed edges iterate in the order ord.
\* stage: how far the call got ("precondition", "building", "pruning", "done").
MSeparated(isMixed, h, gs, ets, x, y, z, bname, dname, ord) ==
    LET pre == MSepPrecondition(isMixed, ets, bname, dname)
        gd  == GetGraphsResult(ets, gs, dname)
        gb  == GetGraphsResult(ets, gs, bname)
    IN
    IF pre # NoError THEN [status |-> pre, stage |-> "precondition", val |-> FALSE]
    ELSE IF gd.err # NoError THEN [status |-> gd.err, stage |-> "building", val |-> FALSE]
    ELSE IF gb.err # NoError THEN [status |-> gb.err, stage |-> "building", val |-> FALSE]
    ELSE LET D0 == DirectedCopy(h, gs, ord.edges)
             B0 == BidirectedCopy(h, gs, gb.val)
             pr == PruneLeaves(D0, B0, InitialLeaves(D0, CopyNodeOrder(ord)), x \cup y \cup z,
                               ord.edges)
         IN IF pr.err # NoError THEN [status |-> pr.err, stage |-> "pruning", val |-> FALSE]
            ELSE [status |-> NoError, stage |-> "done",
                  val |-> SeparatedIn(RemoveOutEdges(pr.D, z), pr.B, x, y)]

----------------------------------------------------------------------------
(* The graphs and the calls of the m_separated specification *)

SepNodes == 1..MaxSepNode

DirEdgeSets(N) ==
    {E \in SUBSET {p \in N \X N : p[1] # p[2]} : Cardinality(E) <= MaxDirEdges}

BiEdgeSets(N) ==
    {E \in SUBSET {p \in N \X N : p[1] < p[2]} : Cardinality(E) <= MaxBiEdges}

\* A DiGraph and a Graph, each over its own node set.
SepDiGraphs == UNION {{NxBuild("DiGraph", N, E) : E \in DirEdgeSets(N)} : N \in SUBSET SepNodes}

SepGraphs == UNION {{NxBuild("Graph", N, E) : E \in BiEdgeSets(N)} : N \in SUBSET SepNodes}

SepLayerPairs == {<<d, b>> : d \in SepDiGraphs, b \in SepGraphs}

\* The graph is MixedEdgeGraph([D, B], ["directed", "bidirected"]), the same with
\* the bidirected layer first, or a graph without one of the two layers.
InitSep ==
    /\ pc = "constructed"
    /\ ret = Ret("__init__", "-", NoError, InitArgs(<<NxNew("DiGraph"), NxNew("Graph")>>, <<1, 2>>))
    /\ call = NoCall
    /\ loop = NoLoop
    /\ graphs = <<1, 2>>
    /\ \E pair \in SepLayerPairs :
         \/ heap = pair /\ edge_types = <<"directed", "bidirected">>
         \/ heap = <<pair[2], pair[1]>> /\ edge_types = <<"bidirected", "directed">>
         \/ /\ pair[1].adj = << >> /\ pair[2].adj = << >>
            /\ heap = pair
            /\ edge_types \in {<<"directed", "undirected">>, <<"undirected", "bidirected">>}

\* The call made, the order in which the graph iterated, and how it ended.
CallRecord(g, x, y, z, bname, dname, ord, r) ==
    [g |-> g, x |-> x, y |-> y, z |-> z, bname |-> bname, dname |-> dname,
     ord |-> ord, status |-> r.status, stage |-> r.stage, val |-> r.val]

\* The orders in which a graph with these layers can iterate, as far as a call
\* that takes the layer named dname for the directed one reads them; a call that
\* finds no such layer reads none.
CallOrders(dname) ==
    IF dname \in Range(edge_types)
    THEN OrderReps(heap, graphs, GetGraphsResult(edge_types, graphs, dname).val)
    ELSE {NoOrder}

\* m_separated(G, x, y, z) with the default layer names, on a graph that
\* iterates in the order ord.
MSepCall(x, y, z, ord) ==
    /\ pc = "constructed"
    /\ call = NoCall
    /\ \E r \in {MSeparated(TRUE, heap, graphs, edge_types, x, y, z, "bidirected", "directed", ord)} :
         call' = CallRecord("MixedEdgeGraph", x, y, z, "bidirected", "directed", ord, r)
    /\ UNCHANGED <<pc, heap, graphs, edge_types, ret, loop>>

\* m_separated(G, x, y, z, bname, dname) with other layer names, on a graph that
\* iterates in the order ord.
MSepCallNamed(x, y, bname, dname, ord) ==
    /\ pc = "constructed"
    /\ call = NoCall
    /\ \E r \in {MSeparated(TRUE, heap, graphs, edge_types, x, y, {}, bname, dname, ord)} :
         call' = CallRecord("MixedEdgeGraph", x, y, {}, bname, dname, ord, r)
    /\ UNCHANGED <<pc, heap, graphs, edge_types, ret, loop>>

\* m_separated(D, x, y, z) where D is a networkx graph, here the first layer:
\* the call raises at line 54 and iterates nothing.
MSepCallPlain(x, y) ==
    /\ pc = "constructed"
    /\ call = NoCall
    /\ \E r \in {MSeparated(FALSE, heap, graphs, edge_types, x, y, {}, "bidirected", "directed", NoOrder)} :
         call' = CallRecord(heap[graphs[1]].kind, x, y, {}, "bidirected", "directed", NoOrder, r)
    /\ UNCHANGED <<pc, heap, graphs, edge_types, ret, loop>>

LayerNames == {"directed", "bidirected", "undirected"}

NextSep ==
    \/ /\ call = NoCall
       /\ \E ord \in CallOrders("directed") :
            \E x \in SUBSET SepNodes, y \in SUBSET SepNodes, z \in SUBSET SepNodes :
               MSepCall(x, y, z, ord)
    \/ /\ call = NoCall
       /\ \E x \in {{1}}, y \in {{2}}, bname \in LayerNames, dname \in LayerNames :
            \E ord \in CallOrders(dname) : MSepCallNamed(x, y, bname, dname, ord)
    \/ \E x \in {{1}}, y \in {{2}} : MSepCallPlain(x, y)

SpecSep == InitSep /\ [][NextSep]_vars

----------------------------------------------------------------------------
(* The leaf-pruning loop of m_separated, one iteration per step *)

\* Directed layers with cycles and self-loops.
PruneEdgeSets(N) == {E \in SUBSET (N \X N) : Cardinality(E) <= MaxPruneEdges}

PruneDiGraphs == UNION {{NxBuild("DiGraph", N, E) : E \in PruneEdgeSets(N)} : N \in SUBSET SepNodes}

PruneGraphs == {NxBuildNodes("Graph", N) : N \in SUBSET SepNodes}

\* The graph is MixedEdgeGraph([D, B], ["directed", "bidirected"]) or the same
\* with the bidirected layer first.
InitPrune ==
    /\ pc = "constructed"
    /\ ret = Ret("__init__", "-", NoError, InitArgs(<<NxNew("DiGraph"), NxNew("Graph")>>, <<1, 2>>))
    /\ call = NoCall
    /\ loop = NoLoop
    /\ graphs = <<1, 2>>
    /\ \E d \in PruneDiGraphs, b \in PruneGraphs :
         \/ heap = <<d, b>> /\ edge_types = <<"directed", "bidirected">>
         \/ heap = <<b, d>> /\ edge_types = <<"bidirected", "directed">>

\* How often each node of the sequence q occurs in it.
Occurrences(q) == [n \in SepNodes |-> Cardinality({i \in DOMAIN q : q[i] = n})]

\* Lines 67-83: m_separated(G, x, y, z) has built G_copy, G_bidirected and the
\* deque of the initial leaves; u is x | y | z and ord the order in which the
\* nodes and the directed edges of G iterate.  `first` keeps the deque of line
\* 83 and `edges` the edges of G_copy in the order of their insertion.
PruneStart(u, ord) ==
    /\ pc = "constructed"
    /\ loop.stage = "idle"
    /\ MSepPrecondition(TRUE, edge_types, "bidirected", "directed") = NoError
    /\ LET D0 == DirectedCopy(heap, graphs, ord.edges)
           B0 == BidirectedCopy(heap, graphs, GetGraphsResult(edge_types, graphs, "bidirected").val)
           L0 == InitialLeaves(D0, CopyNodeOrder(ord))
       IN loop' = [stage |-> "loop", D |-> D0, B |-> B0, leaves |-> L0,
                   first |-> L0, edges |-> ord.edges,
                   union_xyz |-> u, size |-> Cardinality(D0.node), iters |-> 0,
                   enq |-> Occurrences(L0), rem |-> [n \in SepNodes |-> 0]]
    /\ UNCHANGED <<pc, heap, graphs, edge_types, ret, call>>

\* Lines 85-91: one pass of the while loop.
PruneStep ==
    /\ loop.stage = "loop"
    /\ loop.leaves # << >>
    /\ LET leaf == Head(loop.leaves)
           rest == Tail(loop.leaves)
       IN IF leaf \in loop.union_xyz
          THEN loop' = [loop EXCEPT !.leaves = rest, !.iters = @ + 1]
          ELSE LET more == SelectSeq(PredecessorSeq(loop.D, loop.edges, leaf),
                                     LAMBDA p : OutDegree(loop.D, p) = 1)
                   rd   == NxRemoveNode(loop.D, leaf)
                   rb   == NxRemoveNode(loop.B, leaf)
                   q    == rest \o more
                   enq2 == [n \in SepNodes |-> loop.enq[n] + Occurrences(more)[n]]
               IN IF rd.err # NoError
                  THEN loop' = [loop EXCEPT !.stage = "raised", !.leaves = q, !.enq = enq2,
                                            !.iters = @ + 1]
                  ELSE IF rb.err # NoError
                  THEN loop' = [loop EXCEPT !.stage = "raised", !.leaves = q, !.enq = enq2,
                                            !.iters = @ + 1, !.D = rd.g,
                                            !.rem = [@ EXCEPT ![leaf] = @ + 1]]
                  ELSE loop' = [loop EXCEPT !.leaves = q, !.enq = enq2, !.iters = @ + 1,
                                            !.D = rd.g, !.B = rb.g,
                                            !.rem = [@ EXCEPT ![leaf] = @ + 1]]
    /\ UNCHANGED <<pc, heap, graphs, edge_types, ret, call>>

\* Line 84: the deque is empty and the loop is left.
PruneExit ==
    /\ loop.stage = "loop"
    /\ loop.leaves = << >>
    /\ loop' = [loop EXCEPT !.stage = "done"]
    /\ UNCHANGED <<pc, heap, graphs, edge_types, ret, call>>

NextPrune ==
    \/ /\ loop.stage = "idle"
       /\ \E ord \in OrderReps(heap, graphs, GetGraphsResult(edge_types, graphs, "directed").val) :
             \E u \in SUBSET SepNodes : PruneStart(u, ord)
    \/ PruneStep
    \/ PruneExit

SpecPrune == InitPrune /\ [][NextPrune]_vars

\* The loop is a sequential program: an enabled pass is taken.
SpecPruneFair == SpecPrune /\ WF_vars(PruneStep) /\ WF_vars(PruneExit)

----------------------------------------------------------------------------
(* The leaf-pruning loop of m_separated with the deque served in any order *)

\* The graph is MixedEdgeGraph([D, B], ["directed", "bidirected"]) or the same
\* with the bidirected layer first; both layers may have edges.
InitOrder ==
    /\ pc = "constructed"
    /\ ret = Ret("__init__", "-", NoError, InitArgs(<<NxNew("DiGraph"), NxNew("Graph")>>, <<1, 2>>))
    /\ call = NoCall
    /\ loop = NoLoop
    /\ graphs = <<1, 2>>
    /\ \E pair \in SepLayerPairs :
         \/ heap = pair /\ edge_types = <<"directed", "bidirected">>
         \/ heap = <<pair[2], pair[1]>> /\ edge_types = <<"bidirected", "directed">>

\* Every predecessor of the leaf, whatever its out-degree.
EnqueuedAll(D, leaf, es) == PredecessorSeq(D, es, leaf)

\* Lines 87-89: the predecessors of the leaf that the pass appends to the deque,
\* those whose only successor is the leaf.
Enqueued(D, leaf, es) == SelectSeq(PredecessorSeq(D, es, leaf), LAMBDA p : OutDegree(D, p) = 1)

\* The sequence q without its i-th element.
DropAt(q, i) == SubSeq(q, 1, i - 1) \o SubSeq(q, i + 1, Len(q))

\* Lines 67-83, as PruneStart; `fifo` is the outcome of the loop as the code
\* runs it, first in, first out.
OrderStart(u, ord) ==
    /\ pc = "constructed"
    /\ loop.stage = "idle"
    /\ MSepPrecondition(TRUE, edge_types, "bidirected", "directed") = NoError
    /\ LET D0 == DirectedCopy(heap, graphs, ord.edges)
           B0 == BidirectedCopy(heap, graphs, GetGraphsResult(edge_types, graphs, "bidirected").val)
           L0 == InitialLeaves(D0, CopyNodeOrder(ord))
       IN loop' = [stage |-> "loop", D |-> D0, B |-> B0, leaves |-> L0,
                   first |-> L0, edges |-> ord.edges,
                   union_xyz |-> u,
                   fifo |-> PruneLeaves(D0, B0, L0, u, ord.edges)]
    /\ UNCHANGED <<pc, heap, graphs, edge_types, ret, call>>

\* Lines 85-91 with the i-th element of the deque taken instead of the first:
\* this covers every initial order of the leaves and every service order.
OrderStep(i) ==
    /\ loop.stage = "loop"
    /\ i \in DOMAIN loop.leaves
    /\ LET leaf == loop.leaves[i]
           rest == DropAt(loop.leaves, i)
       IN IF leaf \in loop.union_xyz
          THEN loop' = [loop EXCEPT !.leaves = rest]
          ELSE LET q  == rest \o Enqueued(loop.D, leaf, loop.edges)
                   rd == NxRemoveNode(loop.D, leaf)
                   rb == NxRemoveNode(loop.B, leaf)
               IN IF rd.err # NoError
                  THEN loop' = [loop EXCEPT !.stage = "raised", !.leaves = q]
                  ELSE IF rb.err # NoError
                  THEN loop' = [loop EXCEPT !.stage = "raised", !.leaves = q, !.D = rd.g]
                  ELSE loop' = [loop EXCEPT !.leaves = q, !.D = rd.g, !.B = rb.g]
    /\ UNCHANGED <<pc, heap, graphs, edge_types, ret, call>>

\* Line 84: the deque is empty and the loop is left.
OrderExit ==
    /\ loop.stage = "loop"
    /\ loop.leaves = << >>
    /\ loop' = [loop EXCEPT !.stage = "done"]
    /\ UNCHANGED <<pc, heap, graphs, edge_types, ret, call>>

NextOrder ==
    \/ /\ loop.stage = "idle"
       /\ \E ord \in OrderReps(heap, graphs, GetGraphsResult(edge_types, graphs, "directed").val) :
             \E u \in SUBSET SepNodes : OrderStart(u, ord)
    \/ \E i \in 1..MaxSepNode : OrderStep(i)
    \/ OrderExit

SpecOrder == InitOrder /\ [][NextOrder]_vars

----------------------------------------------------------------------------
(* m_separated with its working graphs on the heap *)

\* G_copy is the directed layer itself, not a new graph.
AllocDirectedAlias(h, gs, id, es) == [heap |-> h, ref |-> id]

\* Lines 69-73: G_copy is a new DiGraph with copies of G's nodes and the edges
\* of the directed layer, the layer with object id `id`, which yields them in
\* the order es.
AllocDirected(h, gs, id, es) == [heap |-> Append(h, DirectedCopy(h, gs, es)), ref |-> Len(h) + 1]

\* Lines 76-78: G_bidirected is a new Graph with copies of G's nodes and the
\* edges of the bidirected layer.
AllocBidirected(h, gs, id) == [heap |-> Append(h, BidirectedCopy(h, gs, id)), ref |-> Len(h) + 1]

\* m_separated(G, x, y, z) on a graph with both layers.  Lines 69-78 put the
\* two working graphs on the heap, lines 83-91 prune them (and may raise),
\* lines 94-95 cut the out-edges of z from G_copy, lines 98-114 give the answer.
\* `pruned` keeps G_copy as the loop left it.  The outcome as a value:
RunResult(h, gs, ets, x, y, z, ord) ==
    LET ad == AllocDirected(h, gs, GetGraphsResult(ets, gs, "directed").val, ord.edges)
        ab == AllocBidirected(ad.heap, gs, GetGraphsResult(ets, gs, "bidirected").val)
        h0 == ab.heap
        pr == PruneLeaves(h0[ad.ref], h0[ab.ref], InitialLeaves(h0[ad.ref], CopyNodeOrder(ord)),
                          x \cup y \cup z, ord.edges)
        h1 == [[h0 EXCEPT ![ad.ref] = pr.D] EXCEPT ![ab.ref] = pr.B]
        h2 == [h1 EXCEPT ![ad.ref] = RemoveOutEdges(@, z)]
    IN IF pr.err # NoError
       THEN [heap |-> h1,
             loop |-> [stage |-> "raised", D |-> ad.ref, B |-> ab.ref, x |-> x, y |-> y, z |-> z,
                           status |-> pr.err, pruned |-> h1[ad.ref], val |-> FALSE]]
       ELSE [heap |-> h2,
             loop |-> [stage |-> "done", D |-> ad.ref, B |-> ab.ref, x |-> x, y |-> y, z |-> z,
                           status |-> NoError, pruned |-> h1[ad.ref],
                           val |-> SeparatedIn(h2[ad.ref], h2[ab.ref], x, y)]]

\* the call leaves the working graphs on the heap.
RunCall(x, y, z, ord) ==
    /\ pc = "constructed"
    /\ loop.stage = "idle"
    /\ MSepPrecondition(TRUE, edge_types, "bidirected", "directed") = NoError
    /\ \E r \in {RunResult(heap, graphs, edge_types, x, y, z, ord)} :
          heap' = r.heap /\ loop' = r.loop
    /\ UNCHANGED <<pc, graphs, edge_types, ret, call>>

\* Each behaviour is one call on one graph.
NextRun ==
    /\ loop.stage = "idle"
    /\ \E ord \in OrderReps(heap, graphs, GetGraphsResult(edge_types, graphs, "directed").val) :
          \E x \in SUBSET SepNodes, y \in SUBSET SepNodes, z \in SUBSET SepNodes :
             RunCall(x, y, z, ord)

SpecRun == InitOrder /\ [][NextRun]_vars

----------------------------------------------------------------------------
(* Properties of MixedEdgeGraph *)

Errors == {"ValueError", "TypeError", "NetworkXError", "RuntimeError", "IndexError"}

NodesOf(i) == heap[graphs[i]].node

SameNodeSets == \A i \in DOMAIN graphs : \A j \in DOMAIN graphs : NodesOf(i) = NodesOf(j)

\* C1: in every reachable state of a constructed MixedEdgeGraph all layers have
\* the same node set.
C1_SameNodeSetsAlways == pc = "constructed" => SameNodeSets

NodeOps == {"add_node", "add_nodes_from", "remove_node", "remove_nodes_from"}

\* C2: a node mutation made while all layers have the same node set leaves them
\* with the same node set; add_node(n) puts n in every layer, and a remove_node(n)
\* that returns normally takes n out of every layer.
C2_NodeMutationsKeepSameNodeSets ==
    [][ (ret'.op \in NodeOps /\ SameNodeSets) =>
          /\ SameNodeSets'
          /\ \A n \in AllNodes :
               /\ (ret'.op = "add_node" /\ AddNode(n)) =>
                      (ret'.status = NoError /\ \A i \in DOMAIN graphs : n \in NodesOf(i)')
               /\ (ret'.op = "remove_node" /\ ret'.status = NoError /\ RemoveNode(n)) =>
                      \A i \in DOMAIN graphs : n \notin NodesOf(i)'
      ]_vars

\* The node mutations other than a remove_nodes_from whose argument is an
\* iterator or G.nodes keep the layers on one node set.
Sanity_NodeMutationsReiterable ==
    [][ ( /\ SameNodeSets
          /\ \/ ret'.op \in {"add_node", "add_nodes_from", "remove_node"}
             \/ /\ ret'.op = "remove_nodes_from"
                /\ \E arg \in RemoveArgs : arg.kind = "list" /\ RemoveNodesFrom(arg) )
        => SameNodeSets'
      ]_vars

\* C8: the constructor fails exactly when the two lists differ in length or some
\* element of `graphs` is neither a Graph nor a DiGraph; when it succeeds the
\* object has as many layers as edge-type names.
C8_ConstructionChecks ==
    ret.op = "__init__" =>
        /\ pc \in {"failed", "constructed"}
        /\ pc = "failed" <=> (ret.val.ngraphs # ret.val.ntypes \/ ~ret.val.allgraphs)
        /\ pc = "failed" => (ret.status = "RuntimeError" /\ graphs = << >> /\ heap = << >>)
        /\ pc = "constructed" =>
               /\ ret.status = NoError
               /\ Len(graphs) = Len(edge_types)
               /\ Len(edge_types) = ret.val.ntypes

\* The constructor has refused two objects for two names, one of them no graph.
C8_Witness ==
    /\ pc = "failed" /\ ret.op = "__init__"
    /\ ret.val.ngraphs = 2 /\ ret.val.ntypes = 2 /\ ~ret.val.allgraphs

\* C9: the edge-type names of a constructed graph are pairwise distinct, and
\* get_graphs(edge_types[i]) is the i-th internal graph.
C9_NamesDistinctAndLookup ==
    pc = "constructed" =>
        /\ \A i \in DOMAIN edge_types : \A j \in DOMAIN edge_types :
               edge_types[i] = edge_types[j] => i = j
        /\ \A i \in DOMAIN edge_types :
               LET r == GetGraphsResult(edge_types, graphs, edge_types[i]) IN
               r.err = NoError /\ r.val = graphs[i]

\* The calls that take an edge type.
TypedOps ==
    {"get_graphs", "has_edge", "add_edge", "add_edges_from", "remove_edge",
     "remove_edges_from", "number_of_edges"}

EdgeMutators == {"add_edge", "add_edges_from", "remove_edge", "remove_edges_from"}

\* C10: a typed call naming an edge type that is not registered, or an edge
\* mutation given no edge type, fails and leaves every layer unchanged.  "all"
\* is the selector of every layer in get_graphs, not the name of an edge type.
\* Every step that makes a call changes the call's name, argument or status or
\* the heap, or repeats the step before it.
C10_UnregisteredTypeFails ==
    [][ (/\ ret'.op \in TypedOps
         /\ ret'.et \notin Range(edge_types)
         /\ ret'.et = Missing => ret'.op \in EdgeMutators
         /\ ~(ret'.op = "get_graphs" /\ ret'.et = "all"))
        => (ret'.status \in Errors /\ heap' = heap /\ graphs' = graphs)
      ]_<<ret.op, ret.et, ret.status, heap, graphs>>

\* add_edge has just been refused for an unregistered type on a graph that has
\* a layer with nodes.
C10_Witness ==
    /\ pc = "constructed" /\ ret.op = "add_edge" /\ ret.et = UnknownType
    /\ ret.status = "ValueError"
    /\ Len(graphs) >= 1 /\ NodesOf(1) # {}

\* The layers at positions i and j are two objects.
DistinctObjects == \A i \in DOMAIN graphs : \A j \in DOMAIN graphs : i # j => graphs[i] # graphs[j]

\* The layer at position i has the same nodes and edges after the step.
LayerUntouched(i) ==
    /\ heap'[graphs[i]].node = heap[graphs[i]].node
    /\ Edges(heap'[graphs[i]]) = Edges(heap[graphs[i]])

\* C11 and C12 speak of steps that change a layer, hence the subscript heap.

\* C11: an edge mutation with edge type t leaves the nodes and edges of every
\* layer not named t as they were; a node mutation that returns normally has
\* acted on every layer.
C11_EdgeMutationsTouchOneLayer ==
    [][ /\ (ret'.op \in EdgeMutators /\ ret'.et \in Range(edge_types)) =>
              \A i \in DOMAIN graphs : edge_types[i] # ret'.et => LayerUntouched(i)
        /\ (ret'.op \in {"add_node", "remove_node"} /\ ret'.status = NoError) =>
              \A n \in AllNodes :
                 /\ (ret'.op = "add_node" /\ AddNode(n)) => \A i \in DOMAIN graphs : n \in NodesOf(i)'
                 /\ (ret'.op = "remove_node" /\ RemoveNode(n)) => \A i \in DOMAIN graphs : n \notin NodesOf(i)'
      ]_heap

\* The same for the edge mutations on graphs whose layers are distinct objects.
Sanity_EdgeMutationsDistinctObjects ==
    [][ (DistinctObjects /\ ret'.op \in EdgeMutators /\ ret'.et \in Range(edge_types)) =>
              \A i \in DOMAIN graphs : edge_types[i] # ret'.et => LayerUntouched(i) ]_heap

\* C12: after add_node(n) or remove_node(n), returned or raised, either no
\* layer was changed or every layer reflects the change: n is in every layer
\* after add_node, in no layer after remove_node.
C12_NodeCallsAllOrNothing ==
    [][ \A n \in Nodes :
          /\ (ret'.op = "add_node" /\ AddNode(n)) =>
                 (heap' = heap \/ \A i \in DOMAIN graphs : n \in NodesOf(i)')
          /\ (ret'.op = "remove_node" /\ RemoveNode(n)) =>
                 (heap' = heap \/ \A i \in DOMAIN graphs : n \notin NodesOf(i)')
      ]_heap

\* The same from the states in which all layers have one node set.
Sanity_NodeCallsSameNodeSets ==
    [][ SameNodeSets =>
        \A n \in Nodes :
          /\ (ret'.op = "add_node" /\ AddNode(n)) =>
                 (heap' = heap \/ \A i \in DOMAIN graphs : n \in NodesOf(i)')
          /\ (ret'.op = "remove_node" /\ RemoveNode(n)) =>
                 (heap' = heap \/ \A i \in DOMAIN graphs : n \notin NodesOf(i)')
      ]_heap

\* The nodes that every layer has, and the nodes that some layer has.
NodesOfEveryLayer == {n \in AllNodes \cup SepNodes : \A i \in DOMAIN graphs : n \in NodesOf(i)}
NodesOfSomeLayer == UNION {NodesOf(i) : i \in DOMAIN graphs}

\* C13: in a graph with at least one layer has_node(n) is True exactly when n is
\* a node of every layer, which is when it is a node of any layer, and len(G),
\* number_of_nodes() and order() are the number of these nodes.
C13_NodeQueriesAgreeWithEveryLayer ==
    (pc = "constructed" /\ graphs # << >>) =>
        /\ \A n \in AllNodes \cup SepNodes :
              LET r == HasNodeResult(heap, graphs, n) IN
              /\ r.err = NoError
              /\ r.val = (n \in NodesOfEveryLayer)
              /\ r.val = (n \in NodesOfSomeLayer)
        /\ LET c == NumberOfNodesResult(heap, graphs) IN
           c.err = NoError /\ c.val = Cardinality(NodesOfEveryLayer)

\* The same in the states in which all layers have one node set.
Sanity_NodeQueriesSameNodeSets ==
    (pc = "constructed" /\ graphs # << >> /\ SameNodeSets) =>
        /\ \A n \in AllNodes \cup SepNodes :
              LET r == HasNodeResult(heap, graphs, n) IN
              r.err = NoError /\ r.val = (n \in NodesOfEveryLayer) /\ r.val = (n \in NodesOfSomeLayer)
        /\ LET c == NumberOfNodesResult(heap, graphs) IN
           c.err = NoError /\ c.val = Cardinality(NodesOfEveryLayer)

RECURSIVE SumSeq(_)
SumSeq(q) == IF q = << >> THEN 0 ELSE Head(q) + SumSeq(Tail(q))

\* number_of_edges(u, v, edge_type=t) for each name of the sequence ts.
PerType(ts, given, u, v) ==
    [i \in DOMAIN ts |-> NumberOfEdgesResult(heap, graphs, edge_types, given, u, v, ts[i])]

\* number_of_edges(u, v) is the sum of the per-type counts, taken over the list
\* of edge types or over the distinct names in it.
SumsAgree(given, u, v) ==
    LET tot  == NumberOfEdgesResult(heap, graphs, edge_types, given, u, v, Missing)
        each == PerType(edge_types, given, u, v)
        once == PerType(SeqOf(Range(edge_types)), given, u, v)
    IN (tot.err = NoError /\ \A i \in DOMAIN each : each[i].err = NoError) =>
          \/ tot.val = SumSeq([i \in DOMAIN each |-> each[i].val])
          \/ tot.val = SumSeq([i \in DOMAIN once |-> once[i].val])

\* C14: number_of_edges() is the sum over the registered edge types t of
\* number_of_edges(edge_type=t), and so is number_of_edges(u, v).
C14_NumberOfEdgesIsSumOverTypes ==
    pc = "constructed" => \A given \in BOOLEAN : \A u \in Nodes : \A v \in Nodes : SumsAgree(given, u, v)

NamesDistinct == \A i \in DOMAIN edge_types : \A j \in DOMAIN edge_types : edge_types[i] = edge_types[j] => i = j

\* The same on graphs whose edge-type names are pairwise distinct.
Sanity_NumberOfEdgesDistinctNames ==
    (pc = "constructed" /\ NamesDistinct) =>
        \A given \in BOOLEAN : \A u \in Nodes : \A v \in Nodes : SumsAgree(given, u, v)

\* C15: copy() returns a graph whose layers are new objects equal to the layers
\* of the original.
C15_CopyIsEqualAndIndependent ==
    ret.op = "copy" =>
        /\ ret.status = NoError
        /\ Len(ret.val.gs) = Len(graphs)
        /\ \A i \in DOMAIN graphs :
              /\ ret.val.gs[i] \notin Range(graphs)
              /\ ret.val.h[ret.val.gs[i]] = heap[graphs[i]]

\* The pairs joined in some layer, in both orders.
JoinedInSomeLayer ==
    UNION {{p, <<p[2], p[1]>>} : p \in UNION {Edges(heap[graphs[i]]) : i \in DOMAIN graphs}}

\* C16: to_undirected() succeeds on every graph and returns an undirected graph
\* on the nodes of G that joins u and v exactly when some layer does.
C16_ToUndirectedMergesLayers ==
    ret.op = "to_undirected" =>
        /\ ret.status = NoError
        /\ ret.val.kind = "Graph"
        /\ ret.val.node = GNodes(heap, graphs)
        /\ Edges(ret.val) = JoinedInSomeLayer

Convert == "bidirected_to_unobserved_confounder"

\* C17: on a graph with n edges in the layer bname the call returns a graph
\* with n more nodes, 2n more directed edges and no edge in the layer bname.
\* The layers of the returned graph are the objects ret.val; those of G are
\* still in `graphs`.
C17_ConfounderCounts ==
    (ret.op = Convert /\ {ret.et, "directed"} \subseteq Range(edge_types)) =>
        /\ ret.status = NoError
        /\ LET b  == IndexOf(edge_types, ret.et)
               d  == IndexOf(edge_types, "directed")
               n  == NxSize(heap[graphs[b]])
               rg == ret.val
           IN /\ Cardinality(heap[rg[1]].node) = Cardinality(GNodes(heap, graphs)) + n
              /\ NxSize(heap[rg[d]]) = NxSize(heap[graphs[d]]) + 2 * n
              /\ NxSize(heap[rg[b]]) = 0

\* C18: a call of bidirected_to_unobserved_confounder, returned or raised,
\* leaves the nodes and edges of every layer of its argument as they were.
C18_ConvertLeavesInputUnchanged ==
    [][ ret'.op = Convert =>
          /\ graphs' = graphs /\ edge_types' = edge_types
          /\ \A i \in DOMAIN graphs : heap'[graphs[i]] = heap[graphs[i]]
      ]_vars

\* The call has been made on a graph with an edge in its bidirected layer.
C18_Witness ==
    /\ pc = "constructed" /\ ret.op = Convert /\ ret.et = "bidirected"
    /\ "bidirected" \in Range(edge_types)
    /\ Edges(heap[GetSubGraph(edge_types, graphs, "bidirected").id]) # {}
    /\ ret.status # NoError

\* C19: on a graph with n >= 1 edges in the layer bname the call returns a
\* graph with n nodes that no layer of G has: the synthetic names differ from
\* one another and from the nodes of G.
C19_ConfounderNamesFresh ==
    (/\ ret.op = Convert /\ ret.et \in Range(edge_types)
     /\ Edges(heap[graphs[IndexOf(edge_types, ret.et)]]) # {}) =>
        /\ ret.status = NoError
        /\ LET n  == NxSize(heap[graphs[IndexOf(edge_types, ret.et)]])
               rg == ret.val
           IN \A i \in DOMAIN rg : Cardinality(heap[rg[i]].node \ NodesOfSomeLayer) = n

\* No node has entered the deque twice or been removed twice, and the loop has
\* made no more passes than G_copy had nodes.
PruningBounded ==
    loop.stage # "idle" =>
        /\ \A n \in SepNodes : loop.enq[n] <= 1 /\ loop.rem[n] <= 1
        /\ loop.iters <= loop.size

\* C20: on every graph, cyclic directed layers and self-loops included, the
\* pruning loop ends by emptying its deque, and no node enters the deque or is
\* removed more than once.
C20_PruningEmptiesQueue ==
    /\ PruningBounded
    /\ loop.stage # "raised"
    /\ loop.stage = "done" => loop.leaves = << >>

\* The bounds alone, on every graph.
Sanity_PruningBounded == PruningBounded

\* The loop is left, by an empty deque or an exception.
Sanity_PruningTerminates == (loop.stage = "loop") ~> (loop.stage \in {"done", "raised"})

\* On graphs whose layers have one node set the loop is left by an empty deque.
Sanity_PruningSameNodeSets == SameNodeSets => loop.stage # "raised"

\* The loop agrees with PruneLeaves.
Sanity_PruningAgrees ==
    loop.stage \in {"done", "raised"} =>
        LET D0 == DirectedCopy(heap, graphs, loop.edges)
            B0 == BidirectedCopy(heap, graphs, GetGraphsResult(edge_types, graphs, "bidirected").val)
            pr == PruneLeaves(D0, B0, loop.first, loop.union_xyz, loop.edges)
        IN /\ (pr.err = NoError) = (loop.stage = "done")
           /\ pr.D = loop.D /\ pr.B = loop.B

----------------------------------------------------------------------------
(* m-separation by its definition, on the graph G itself *)

\* The directed and the bidirected edges of the graph the call was given.
DirE == Edges(heap[GetGraphsResult(edge_types, graphs, "directed").val])
BiE == Edges(heap[GetGraphsResult(edge_types, graphs, "bidirected").val])

\* The ways to step from u to v: along u -> v ("out"), against u <- v ("in"),
\* or along u <-> v ("bi").
Marks(u, v) ==
    (IF <<u, v>> \in DirE THEN {"out"} ELSE {})
    \cup (IF <<v, u>> \in DirE THEN {"in"} ELSE {})
    \cup (IF <<u, v>> \in BiE \/ <<v, u>> \in BiE THEN {"bi"} ELSE {})

RECURSIVE Descendants(_)
Descendants(S) ==
    LET T == S \cup {p[2] : p \in {q \in DirE : q[1] \in S}} IN
    IF T = S THEN S ELSE Descendants(T)

\* The directed layer has no directed cycle.
Acyclic == \A p \in DirE : p[1] \notin Descendants({p[2]})

\* An inner node u of a path, entered by an edge with (intoU) or without an
\* arrowhead at u and left by a step marked m, does not block the path given z.
PassesThrough(u, intoU, m, z) ==
    IF intoU /\ m \in {"in", "bi"}
    THEN Descendants({u}) \cap z # {}       \* a collider: in z or with a descendant in z
    ELSE u \notin z                         \* a non-collider: outside z

\* Some path that has reached the inner node u goes on, open, to a node of y.
RECURSIVE OpenPathOn(_, _, _, _, _)
OpenPathOn(u, intoU, visited, y, z) ==
    \E v \in SepNodes \ visited : \E m \in Marks(u, v) :
        /\ PassesThrough(u, intoU, m, z)
        /\ \/ v \in y
           \/ OpenPathOn(v, m \in {"out", "bi"}, visited \cup {v}, y, z)

\* Some open path joins a node of x to a node of y.
MConnected(x, y, z) ==
    \E a \in x : \E v \in SepNodes \ {a} : \E m \in Marks(a, v) :
        \/ v \in y
        \/ OpenPathOn(v, m \in {"out", "bi"}, {a, v}, y, z)

----------------------------------------------------------------------------
(* Properties of m_separated *)

DefaultCall ==
    call.g = "MixedEdgeGraph" /\ call.bname = "bidirected" /\ call.dname = "directed"

HasBothLayers == {"directed", "bidirected"} \subseteq Range(edge_types)

\* The nodes every layer of G has.
CommonNodes == {n \in SepNodes : \A i \in DOMAIN graphs : n \in NodesOf(i)}

\* C3: on a graph with an acyclic directed layer, for non-empty x and y and a z
\* that are pairwise disjoint sets of nodes of G, m_separated returns True
\* exactly when no open path joins x and y given z.
C3_ReturnsMSeparation ==
    (/\ DefaultCall /\ HasBothLayers /\ Acyclic
     /\ call.x # {} /\ call.y # {} /\ call.x \cap call.y = {}
     /\ call.z \cap (call.x \cup call.y) = {}
     /\ call.x \cup call.y \cup call.z \subseteq CommonNodes)
    => (call.status = NoError /\ call.val = ~MConnected(call.x, call.y, call.z))

\* The graph of examples/plot_mixed_edge_graph.py: Z -> X, X -> Y, X <-> Y.
IsExampleGraph ==
    /\ heap = <<ExampleDirected, ExampleBidirected>>
    /\ graphs = <<1, 2>>
    /\ edge_types = <<"directed", "bidirected">>

\* C4: on the example graph m_separated(G, {Z}, {Y}, {}) and
\* m_separated(G, {Z}, {Y}, {X}) both return False.
C4_ExampleGraphNotSeparated ==
    (IsExampleGraph /\ DefaultCall /\ call.x = {3} /\ call.y = {2} /\ call.z \in {{}, {1}})
    => (call.status = NoError /\ call.val = FALSE)

\* The call conditioned on X has returned False on the example graph.
C4_Witness ==
    /\ IsExampleGraph /\ DefaultCall
    /\ call.x = {3} /\ call.y = {2} /\ call.z = {1}
    /\ call.status = NoError /\ call.val = FALSE

\* The call's argument breaks a precondition of m_separated.
BadArgument(c) ==
    \/ c.g # "MixedEdgeGraph"
    \/ c.bname \notin Range(edge_types)
    \/ c.dname \notin Range(edge_types)

\* C5: m_separated raises its precondition error, before it builds a working
\* graph and with G unchanged, exactly when G is no MixedEdgeGraph or lacks the
\* layer named by directed_edge_name or by bidirected_edge_name.
C5_PreconditionError ==
    [][ call'.g # "-" =>
          /\ BadArgument(call') => (call'.status = "RuntimeError" /\ call'.stage = "precondition")
          /\ ~BadArgument(call') => (call'.status # "RuntimeError" /\ call'.stage \notin {"precondition", "building"})
          /\ heap' = heap /\ graphs' = graphs /\ edge_types' = edge_types
      ]_vars

\* The call has been refused on a MixedEdgeGraph without a bidirected layer.
C5_Witness ==
    /\ call.g = "MixedEdgeGraph" /\ call.bname = "bidirected" /\ call.dname = "directed"
    /\ "directed" \in Range(edge_types) /\ "bidirected" \notin Range(edge_types)
    /\ call.status = "RuntimeError" /\ call.stage = "precondition"

\* C6: with x or y empty the call returns True and does not raise.
C6_EmptySetSeparated ==
    (DefaultCall /\ HasBothLayers /\ (call.x = {} \/ call.y = {}))
    => (call.status = NoError /\ call.val = TRUE)

\* The same on graphs whose layers have one node set.
SepSanity_EmptySetSameNodes ==
    (DefaultCall /\ HasBothLayers /\ SameNodeSets /\ (call.x = {} \/ call.y = {}))
    => (call.status = NoError /\ call.val = TRUE)

\* C7: with x, y, z sets of nodes of G and z overlapping x or y, the call
\* returns a boolean and does not raise.
C7_OverlapTolerated ==
    (/\ DefaultCall /\ HasBothLayers
     /\ call.x \cup call.y \cup call.z \subseteq CommonNodes
     /\ (call.x \cap call.z # {} \/ call.y \cap call.z # {}))
    => (call.status = NoError /\ call.val \in BOOLEAN)

\* The same on graphs whose layers have one node set.
SepSanity_OverlapSameNodes ==
    (/\ DefaultCall /\ HasBothLayers /\ SameNodeSets
     /\ (call.x \cap call.z # {} \/ call.y \cap call.z # {}))
    => (call.status = NoError /\ call.val \in BOOLEAN)

\* The same as C3 on graphs whose layers have one node set.
SepSanity_DisjointSameNodes ==
    (/\ DefaultCall /\ HasBothLayers /\ Acyclic /\ SameNodeSets
     /\ call.x # {} /\ call.y # {} /\ call.x \cap call.y = {}
     /\ call.z \cap (call.x \cup call.y) = {}
     /\ call.x \cup call.y \cup call.z \subseteq CommonNodes)
    => (call.status = NoError /\ call.val = ~MConnected(call.x, call.y, call.z))

----------------------------------------------------------------------------
(* Properties of the steps of m_separated *)

\* The nodes of S and the nodes with a directed path into S, in the directed
\* layer of G.
RECURSIVE Ancestors(_)
Ancestors(S) ==
    LET T == S \cup {p[1] : p \in {q \in DirE : q[2] \in S}} IN
    IF T = S THEN S ELSE Ancestors(T)

\* The pruning loop has been left by an empty deque on a graph with an acyclic
\* directed layer, with x | y | z nodes of G.
PrunedAcyclic ==
    loop.stage = "done" /\ Acyclic /\ loop.union_xyz \subseteq GNodes(heap, graphs)

\* C21: when the pruning loop finishes on a graph with an acyclic directed layer
\* and x, y, z sets of nodes of G, the nodes left in G_copy, and those left in
\* G_bidirected, are exactly x | y | z and their directed-layer ancestors.
C21_PruningLeavesAncestralSet ==
    PrunedAcyclic =>
        /\ loop.D.node = Ancestors(loop.union_xyz)
        /\ loop.B.node = Ancestors(loop.union_xyz)

\* The same for G_copy alone.
Sanity_AncestralDirected == PrunedAcyclic => loop.D.node = Ancestors(loop.union_xyz)

\* The same on graphs whose layers have one node set.
Sanity_AncestralSameNodeSets ==
    (PrunedAcyclic /\ SameNodeSets) =>
        /\ loop.D.node = Ancestors(loop.union_xyz)
        /\ loop.B.node = Ancestors(loop.union_xyz)

\* C22: in whatever order the deque is served, a loop that is left by an empty
\* deque leaves the nodes and edges in G_copy and G_bidirected that the
\* first-in-first-out loop leaves, and the answer computed from them is the same.
C22_PruningOrderIndependent ==
    loop.stage = "done" =>
        /\ loop.fifo.err = NoError
        /\ loop.D = loop.fifo.D
        /\ loop.B = loop.fifo.B
        /\ \A x \in SUBSET loop.union_xyz : \A y \in SUBSET loop.union_xyz :
             LET z == loop.union_xyz \ (x \cup y) IN
             SeparatedIn(RemoveOutEdges(loop.D, z), loop.B, x, y)
               = SeparatedIn(RemoveOutEdges(loop.fifo.D, z), loop.fifo.B, x, y)

\* Some leaf has been removed, the deque has held two nodes at once, and the loop
\* has been left by an empty deque.
C22_Witness ==
    /\ loop.stage = "done"
    /\ loop.D.node # DirectedCopy(heap, graphs, loop.edges).node
    /\ Len(loop.first) >= 2
    /\ BiE # {}

\* A loop that raises in one order raises in every order.
Sanity_OrderRaises == loop.stage = "raised" <=> (loop.stage # "idle" /\ loop.stage # "loop" /\ loop.fifo.err # NoError)

\* The edges of G_copy after step 3 are those the loop left, less the ones that
\* leave a node of z.
CutDone ==
    loop.stage = "done" =>
        /\ \A p \in Edges(heap[loop.D]) : p[1] \notin loop.z
        /\ \A p \in Edges(loop.pruned) : p[1] \notin loop.z => p \in Edges(heap[loop.D])
        /\ loop.z = {} => Edges(heap[loop.D]) = Edges(loop.pruned)

\* C23: after step 3 G_copy has no edge that leaves a node of z and still has
\* every edge the pruning left that leaves a node outside z; a call with an
\* empty z is accepted, without an error, and its step 3 removes no edge.
C23_CutRemovesOutEdgesOfZ ==
    /\ CutDone
    /\ (loop.stage # "idle" /\ loop.z = {}) => (loop.stage = "done" /\ loop.status = NoError)

\* Step 3 alone, on every call that reaches it.
Sanity_CutDone == CutDone

\* On graphs whose layers have one node set a call with an empty z is accepted.
Sanity_EmptyZSameNodeSets ==
    (loop.stage # "idle" /\ loop.z = {} /\ SameNodeSets) => (loop.stage = "done" /\ loop.status = NoError)

\* Step 3 has removed an edge and kept another.
CutActed ==
    /\ loop.stage = "done"
    /\ \E p \in Edges(loop.pruned) : p[1] \in loop.z
    /\ \E p \in Edges(loop.pruned) : p[1] \notin loop.z

\* The edges of F: the edges left in G_copy, in both directions, and the edges
\* left in G_bidirected.
EdgesOfF ==
    LET de == Edges(heap[loop.D]) IN
    de \cup {<<p[2], p[1]>> : p \in de} \cup Edges(heap[loop.B])

\* The nodes joined to a node of S by a path in F, S included.
RECURSIVE ReachInF(_)
ReachInF(S) ==
    LET T == S \cup {p[2] : p \in {q \in EdgesOfF : q[1] \in S}} IN
    IF T = S THEN S ELSE ReachInF(T)

\* C24: for non-empty x and y the call that reaches its decision returns False
\* exactly when a node of x and a node of y lie in one connected component of F,
\* a node without an edge in F being a component of its own.
C24_DecisionIsConnectivityInF ==
    (loop.stage = "done" /\ loop.x # {} /\ loop.y # {}) =>
        (loop.val = FALSE <=> \E a \in loop.x : loop.y \cap ReachInF({a}) # {})

\* The call has returned False for disjoint x and y where the node of x that is
\* joined to y is not the only node of x and another node of x has no edge in F.
C24_Witness ==
    /\ loop.stage = "done" /\ loop.val = FALSE
    /\ loop.x \cap loop.y = {} /\ loop.y # {}
    /\ \E a \in loop.x : ReachInF({a}) = {a}
    /\ \E a \in loop.x : loop.y \cap ReachInF({a}) # {}

\* C27: the call, whether it returns or raises, leaves G as it was: the list of
\* layers, their names, and every layer's nodes and edges.
C27_CallLeavesGraphUnchanged ==
    [][ (loop.stage = "idle" /\ loop'.stage # "idle") =>
          /\ graphs' = graphs /\ edge_types' = edge_types
          /\ \A i \in DOMAIN graphs : heap'[graphs[i]] = heap[graphs[i]]
      ]_heap

\* A call has raised after it removed a node from G_copy, and G_copy is not a
\* layer of G.
C27_Witness ==
    /\ loop.stage = "raised"
    /\ loop.D \notin Range(graphs) /\ loop.B \notin Range(graphs)
    /\ heap[loop.D].node # GNodes(heap, graphs)

\* A call has returned after pruning and cutting its working graph.
ReturnedAfterChanges ==
    /\ loop.stage = "done"
    /\ heap[loop.D].node # GNodes(heap, graphs)
    /\ Edges(heap[loop.D]) # Edges(loop.pruned)

----------------------------------------------------------------------------
(* Properties of add_edge and update *)

\* add_edge with edge type t has returned on a layer that is a Graph.
AddEdgeOnUndirected ==
    /\ ret'.op = "add_edge" /\ ret'.status = NoError
    /\ ret'.et \in Range(edge_types)
    /\ heap[GetSubGraph(edge_types, graphs, ret'.et).id].kind = "Graph"

\* Under edge type t the adjacency has gained or rewritten the entries u -> v
\* and v -> u, both with the attribute dict d, and nothing else has changed.
AdjGained(old, new, t, u, v, d) ==
    /\ DOMAIN new = DOMAIN old
    /\ \A s \in DOMAIN old \ {t} : new[s] = old[s]
    /\ DOMAIN new[t] = DOMAIN old[t] \cup {<<u, v>>, <<v, u>>}
    /\ new[t][<<u, v>>] = d /\ new[t][<<v, u>>] = d
    /\ \A p \in DOMAIN old[t] \ {<<u, v>>, <<v, u>>} : new[t][p] = old[t][p]

\* C25: add_edge(u, v, edge_type=t) without attributes on an undirected layer
\* leaves the adjacency of the graph with the entries u -> {v: {}} and
\* v -> {u: {}} under t and with no other new entry.
C25_AddEdgeEmptyAttributes ==
    [][ AddEdgeOnUndirected =>
          \E u \in Nodes, v \in Nodes :
              AdjGained(Adj(heap, graphs, edge_types), Adj(heap', graphs', edge_types'),
                        ret'.et, u, v, EmptyDict)
      ]_heap

\* With distinct layer objects under distinct names the same holds with the
\* attribute dict {"key": None} in place of the empty one.
Sanity_AddEdgeKeyAttribute ==
    [][ (AddEdgeOnUndirected /\ DistinctObjects /\ NamesDistinct) =>
          \E u \in Nodes, v \in Nodes :
              AdjGained(Adj(heap, graphs, edge_types), Adj(heap', graphs', edge_types'),
                        ret'.et, u, v, KeyAttr)
      ]_heap

\* The edge tuples of the sequence eb as stored in a layer of kind k.
StoredEdges(eb, k) ==
    UNION {IF k = "DiGraph" THEN {<<eb[i][1], eb[i][2]>>}
           ELSE {<<eb[i][1], eb[i][2]>>, <<eb[i][2], eb[i][1]>>} : i \in DOMAIN eb}

\* The end points of the edges of eb.
EndPoints(eb) == UNION {{eb[i][1], eb[i][2]} : i \in DOMAIN eb}

\* Every layer has gained the nodes of N and nothing else.
EveryLayerGained(N) ==
    \A i \in DOMAIN graphs : heap'[graphs[i]].node = heap[graphs[i]].node \cup N

\* C26: update(edges=E, nodes=N, edge_type=t) adds each element of N as a node
\* of every layer and each edge of E, with its end points, to layer t;
\* update(nodes=N) alone makes the node set gain exactly the elements of N;
\* update with edges and without an edge type fails with an error.
C26_UpdateAddsNodesAndEdges ==
    [][ ret'.op = "update" =>
          LET a  == ret'.val
              id == GetSubGraph(edge_types, graphs, ret'.et).id
          IN /\ (a.nodes /\ ~a.edges) =>
                   (ret'.status = NoError /\ EveryLayerGained(Range(a.bunch)))
             /\ (a.edges /\ ret'.et = Missing) => ret'.status \in Errors
             /\ (a.edges /\ a.nodes /\ ret'.et # Missing) =>
                   /\ ret'.status = NoError
                   /\ Range(a.bunch) \subseteq heap'[id].node
                   /\ EndPoints(UpdateEdges) \subseteq heap'[id].node
                   /\ Edges(heap'[id]) = Edges(heap[id]) \cup StoredEdges(UpdateEdges, heap[id].kind)
                   /\ \A i \in DOMAIN graphs : graphs[i] # id =>
                         /\ heap'[graphs[i]].node = heap[graphs[i]].node \cup Range(a.bunch)
                         /\ Edges(heap'[graphs[i]]) = Edges(heap[graphs[i]])
      ]_<<ret.op, ret.et, ret.status, heap>>

\* What the code does: update with edges ends in TypeError whatever the edge
\* type, update with neither in NetworkXError, and update(nodes=N) either raises
\* TypeError (N a list) or adds N itself as one node to every layer.
Sanity_UpdateAsCoded ==
    [][ ret'.op = "update" =>
          LET a == ret'.val IN
          /\ a.edges => ret'.status = "TypeError"
          /\ (~a.edges /\ ~a.nodes) => (ret'.status = "NetworkXError" /\ heap' = heap)
          /\ (~a.edges /\ a.nodes) =>
                \/ ret'.status = "TypeError" /\ heap' = heap
                \/ ret'.status = NoError /\ EveryLayerGained({TupleNode(a.bunch)})
      ]_<<ret.op, ret.et, ret.status, heap>>

----------------------------------------------------------------------------
(* Further properties of m_separated *)

\* The call of the state with x and y exchanged, on the same graph.
Swapped ==
    MSeparated(TRUE, heap, graphs, edge_types, call.y, call.x, call.z, call.bname, call.dname,
               call.ord)

\* C28: whenever m_separated(G, x, y, z) returns, m_separated(G, y, x, z) returns
\* the same boolean.
C28_SymmetricInXAndY ==
    (call.g = "MixedEdgeGraph" /\ call.status = NoError) =>
        \E r \in {Swapped} : r.status = NoError /\ r.val = call.val

\* A call with different non-empty x and y of different sizes has returned
\* False.
C28_Witness ==
    /\ call.g = "MixedEdgeGraph" /\ call.status = NoError /\ call.val = FALSE
    /\ call.x # {} /\ call.y # {} /\ call.x \cap call.y = {}
    /\ Cardinality(call.x) # Cardinality(call.y)

\* C29: in the pruning loop every node removed from G_copy is a node of
\* G_bidirected, so that the paired removal never raises and the two working
\* graphs keep one node set, on every graph with both layers, whatever the node
\* sets of its layers.
C29_PairedRemovalNeverFails ==
    loop.stage # "idle" => (loop.stage # "raised" /\ loop.D.node = loop.B.node)

\* The same on graphs whose layers have one node set.
Sanity_PairedRemovalSameNodeSets ==
    (loop.stage # "idle" /\ SameNodeSets) => (loop.stage # "raised" /\ loop.D.node = loop.B.node)

\* C30: if x and y share a node the call returns False, whatever the graph and
\* z.
C30_SharedNodeNotSeparated ==
    (DefaultCall /\ HasBothLayers /\ call.x \cap call.y # {})
    => (call.status = NoError /\ call.val = FALSE)

\* The same for the calls that return.
Sanity_SharedNodeReturned ==
    (DefaultCall /\ HasBothLayers /\ call.x \cap call.y # {} /\ call.status = NoError)
    => call.val = FALSE

\* The same on graphs whose layers have one node set.
Sanity_SharedNodeSameNodeSets ==
    (DefaultCall /\ HasBothLayers /\ SameNodeSets /\ call.x \cap call.y # {})
    => (call.status = NoError /\ call.val = FALSE)

----------------------------------------------------------------------------
(* The order of insertion *)

\* The call of the state on the graph filled in ascending order.
OnAscendingOrder ==
    MSeparated(TRUE, heap, graphs, edge_types, call.x, call.y, call.z, call.bname, call.dname,
               IF call.dname \in Range(edge_types)
               THEN AscendingOrder(heap, graphs,
                        GetGraphsResult(edge_types, graphs, call.dname).val)
               ELSE NoOrder)

\* A call with the default layer names ends in the same way whatever the order
\* in which the graph iterates.
Sanity_DefaultCallOrderImmaterial ==
    DefaultCall => \E r \in {OnAscendingOrder} : r.status = call.status /\ r.val = call.val

\* A call that names an undirected layer as the directed one can end in one way
\* on one order and in another way on another.
NamedCallOrderMatters ==
    /\ call.g = "MixedEdgeGraph" /\ ~DefaultCall
    /\ \E r \in {OnAscendingOrder} : r.status # call.status

\* Whatever the order in which the nodes and the directed edges of G iterate,
\* the call ends as it does on the graph filled in ascending order: with the
\* same exception or the same answer.
Sanity_InsertionOrderImmaterial ==
    loop.stage # "idle" =>
        \E r \in {MSeparated(TRUE, heap, graphs, edge_types, loop.x, loop.y, loop.z,
                             "bidirected", "directed",
                             AscendingOrder(heap, graphs,
                                 GetGraphsResult(edge_types, graphs, "directed").val))} :
            r.status = loop.status /\ (r.status = NoError => r.val = loop.val)

====
